---- MODULE Spec2Model ----
(***************************************************************************)
(* Model of the vvp class-definition engine (vvp/class_type.cc): the       *)
(* property kinds, the layout done by class_type::finish_setup, the typed  *)
(* accessors of class_type and the .class compile protocol                 *)
(* (compile_class_start / compile_class_property / compile_class_done).    *)
(*                                                                         *)
(* An assert() that fails aborts the process: the model records the failed *)
(* assertion in `fatal` and no further step is taken.                      *)
(***************************************************************************)
EXTENDS Integers, Sequences, FiniteSets, TLC

VARIABLES
    heap,           \* the class_type objects created so far (id = index)
    compile_class,  \* static class_type*compile_class (0 = null)
    vpi_symbols,    \* labels defined by compile_vpi_symbol: <<label, class id>>
    current_scope,  \* vpip_peek_current_scope() (0 = null)
    scope_classes,  \* scope->classes of every scope: name -> class id (0 = absent)
    insts,          \* the instance buffers handed out by instance_new
    fatal,          \* "none", or the assertion that aborted the process
    finished,       \* class ids on which finish_setup has completed
    call            \* the last operation called, with its arguments and result

vars == <<heap, compile_class, vpi_symbols, current_scope, scope_classes,
          insts, fatal, finished, call>>

----------------------------------------------------------------------------
(* Bounds of the model. *)

\* largest property count given to compile_class_start in the layout runs
MaxProps == 3
\* number of class_type objects the protocol runs create
MaxClasses == 2
\* number of instances the instance runs make
MaxInsts == 1

(* Input alphabets. *)
ClassNames == {"A", "B"}
Labels == {"C_a"}
Scopes == {1, 2}

\* the type codes class_type::set_property recognises
KnownTags == {"b8", "b16", "b32", "b64", "sb8", "sb16", "sb32", "sb64",
              "r", "S", "o"}
\* type codes it does not recognise
UnknownTags == {"v4"}
AllTags == KnownTags \cup UnknownTags
\* the type codes used where several classes are built
ProtoTags == {"b8", "S", "v4"}
\* the property counts used where several classes are built
ProtoCounts == {0, 1, 2}

AtomTags == {"b8", "b16", "b32", "b64", "sb8", "sb16", "sb32", "sb64"}

----------------------------------------------------------------------------
(* Sizes of the storage types (an LP64 build with the libstdc++ string). *)

SizeofString == 32
SizeofObject == 8
SizeofDouble == 8

\* offset_ of a class_property_t before set_offset: not initialised
Uninit == -1

\* properties_[idx].type == 0
NullType == [kind |-> "NULL", offset_ |-> Uninit]

\* what `new property_xxx` yields: the kind, offset_ not yet set
NewType(kind) == [kind |-> kind, offset_ |-> Uninit]

\* class_property_t::instance_size() of each concrete kind
instance_size(type) ==
    CASE type.kind \in {"b8", "sb8"}   -> 1
      [] type.kind \in {"b16", "sb16"} -> 2
      [] type.kind \in {"b32", "sb32"} -> 4
      [] type.kind \in {"b64", "sb64"} -> 8
      [] type.kind = "r"               -> SizeofDouble
      [] type.kind = "S"               -> SizeofString
      [] type.kind = "o"               -> SizeofObject

Max(S) == CHOOSE x \in S : \A y \in S : y <= x
Min(S) == CHOOSE x \in S : \A y \in S : x <= y

----------------------------------------------------------------------------
(* class_type *)

\* class_type::class_type(nam, nprop): nprop value-initialised slots
class_type(nam, nprop) ==
    [class_name_ |-> nam,
     properties_ |-> [i \in 1..nprop |-> [name |-> "", type |-> NullType]],
     instance_size_ |-> 0]

\* type_of_code with a default branch that creates a 32 bit atom
type_of_code_default_atom(type) ==
    IF type \in KnownTags THEN NewType(type) ELSE NewType("b32")

\* the type object set_property creates for a type code
type_of_code(type) ==
    IF type \in KnownTags THEN NewType(type) ELSE NullType

\* set_property keeping the declaration a slot already has
set_property_first_wins(cls, idx, name, type) ==
    IF cls.properties_[idx + 1].type # NullType THEN cls
    ELSE [cls EXCEPT !.properties_[idx + 1] =
                         [name |-> name, type |-> type_of_code(type)]]

\* class_type::set_property past its assertion (idx is 0-based)
set_property(cls, idx, name, type) ==
    [cls EXCEPT !.properties_[idx + 1] =
                    [name |-> name, type |-> type_of_code(type)]]

\* accum_sizes with every size rounded up to a multiple of 4 (padding)
accum_sizes_padded(properties) ==
    LET RECURSIVE sum(_)
        sum(idx) ==
            IF idx = 0 THEN 0
            ELSE sum(idx - 1)
                 + 4 * ((instance_size(properties[idx].type) + 3) \div 4)
    IN sum(Len(properties))

\* first loop of finish_setup: the sum of the sizes
accum_sizes(properties) ==
    LET RECURSIVE sum(_)
        sum(idx) == IF idx = 0 THEN 0
                    ELSE sum(idx - 1) + instance_size(properties[idx].type)
    IN sum(Len(properties))

\* first loop of finish_setup: size_map[instance_size].push_back(idx)
size_map(properties) ==
    LET n == Len(properties)
        keys == {instance_size(properties[i].type) : i \in 1..n}
    IN [s \in keys |->
          SelectSeq([i \in 1..n |-> i - 1],
                    LAMBDA pid : instance_size(properties[pid + 1].type) = s)]

\* reverse_next visiting the buckets from begin() instead of rbegin()
reverse_next_forward(keys) == Min(keys)

\* the bucket the reverse iterator visits next among the keys not yet visited
reverse_next(keys) == Max(keys)

\* advance stepping by one byte whatever the size
advance_one(accum, size) == accum + 1

\* the step of accum after a property of size `size` was placed
advance(accum, size) == accum + size

\* inner loop of finish_setup over one bucket, from position idx (1-based)
RECURSIVE place_bucket(_, _, _, _, _)
place_bucket(properties, bucket, size, idx, accum) ==
    IF idx > Len(bucket) THEN [properties_ |-> properties, accum |-> accum]
    ELSE LET pid == bucket[idx]
         IN place_bucket(
                [properties EXCEPT ![pid + 1].type.offset_ = accum],
                bucket, size, idx + 1, advance(accum, size))

\* outer loop of finish_setup: the buckets from rbegin() to rend()
RECURSIVE place_all(_, _, _, _)
place_all(properties, smap, keys, accum) ==
    IF keys = {} THEN properties
    ELSE LET cur == reverse_next(keys)
             r == place_bucket(properties, smap[cur], cur, 1, accum)
         IN place_all(r.properties_, smap, keys \ {cur}, r.accum)

\* does the assertion of the first loop of finish_setup hold?
all_types_set(cls) ==
    \A i \in 1..Len(cls.properties_) : cls.properties_[i].type.kind # "NULL"

\* class_type::finish_setup past its assertions
finish_setup(cls) ==
    LET smap == size_map(cls.properties_)
    IN [cls EXCEPT !.instance_size_ = accum_sizes(cls.properties_),
                   !.properties_ =
                       place_all(cls.properties_, smap, DOMAIN smap, 0)]

----------------------------------------------------------------------------
(* Values: four-state vectors, integers, reals, strings, object handles.   *)
(* A vvp_vector4_t is a sequence of digits, digit 0 first; an integer of   *)
(* type T is the sequence of its 8*sizeof(T) bits, bit 0 first; a double   *)
(* is its eight bytes; a string is the sequence of its character codes;    *)
(* an object handle is a small number, 0 the nil handle.                   *)

BIT4_0 == 0
BIT4_1 == 1
BIT4_Z == 2
BIT4_X == 3

\* sizeof(unsigned long) of the build
SizeofLong == 8

\* a byte of `new char[n]` that nothing has written yet
Indeterminate == -1

RECURSIVE Pow2(_)
Pow2(n) == IF n = 0 THEN 1 ELSE 2 * Pow2(n - 1)

\* the bytes of an integer in memory (little endian), from its bits
bits_to_bytes(bits) ==
    [k \in 1..(Len(bits) \div 8) |->
        LET RECURSIVE byte(_)
            byte(j) == IF j = 8 THEN 0
                       ELSE bits[8 * (k - 1) + j + 1] * Pow2(j) + byte(j + 1)
        IN byte(0)]

\* the bits of the integer held in some bytes, were the most significant
\* byte first in memory
bytes_to_bits_big_endian(bytes) ==
    [i \in 1..(8 * Len(bytes)) |->
        (bytes[Len(bytes) - ((i - 1) \div 8)] \div Pow2((i - 1) % 8)) % 2]

\* the bits of the integer held in some bytes
bytes_to_bits(bytes) ==
    [i \in 1..(8 * Len(bytes)) |->
        (bytes[((i - 1) \div 8) + 1] \div Pow2((i - 1) % 8)) % 2]

\* the `size` bytes at buf+offset; bytes outside the buffer are indeterminate
read_bytes(buf, offset, size) ==
    [k \in 1..size |->
        IF offset + k \in DOMAIN buf THEN buf[offset + k] ELSE Indeterminate]

\* a store that runs one byte past the object and zeroes it
write_bytes_overrun(buf, offset, bytes) ==
    [k \in 1..Len(buf) |->
        IF k > offset /\ k <= offset + Len(bytes) THEN bytes[k - offset]
        ELSE IF k = offset + Len(bytes) + 1 THEN 0 ELSE buf[k]]

\* buf after `bytes` were stored at buf+offset
write_bytes(buf, offset, bytes) ==
    [k \in 1..Len(buf) |->
        IF k > offset /\ k <= offset + Len(bytes)
        THEN bytes[k - offset] ELSE buf[k]]

\* vector4_to_value(vec, val, is_signed, is_arithmetic) for a val of nbits
\* bits: the flag tells whether every digit of vec is 0 or 1; the value
\* takes the low digits of vec, a digit that is not 1 read as 0, and a
\* vector narrower than val is sign extended when is_signed
vector4_to_value(vec, nbits, is_signed, is_arithmetic) ==
    [flag |-> \A i \in 1..Len(vec) : vec[i] \in {BIT4_0, BIT4_1},
     val |-> [i \in 1..nbits |->
                 IF i <= Len(vec)
                 THEN (IF vec[i] = BIT4_1 THEN 1 ELSE 0)
                 ELSE IF is_signed /\ Len(vec) > 0 /\ vec[Len(vec)] = BIT4_1
                      THEN 1 ELSE 0]]

\* vvp_vector4_t::setarray(0, wid, words) on a vector resized to wid digits:
\* digit i is bit i of the words, all digits 0 or 1
setarray(wid, words) ==
    [i \in 1..wid |->
        words[((i - 1) \div (8 * SizeofLong)) + 1][((i - 1) % (8 * SizeofLong)) + 1]]

\* the kinds whose T is a signed integer type
SignedTags == {"sb8", "sb16", "sb32", "sb64"}

\* the conversion of a T to unsigned long
to_unsigned_long(bits, signed) ==
    [i \in 1..(8 * SizeofLong) |->
        IF i <= Len(bits) THEN bits[i]
        ELSE IF signed THEN bits[Len(bits)] ELSE 0]

\* src[0] >> n on a T
shift_right(bits, n, signed) ==
    [i \in 1..Len(bits) |->
        IF i + n <= Len(bits) THEN bits[i + n]
        ELSE IF signed THEN bits[Len(bits)] ELSE 0]

\* tmp_cnt of property_atom<T>::get_vec4
tmp_cnt(size) == IF size < SizeofLong THEN 1 ELSE size \div SizeofLong

\* a width of sizeof(T) digits instead of 8*sizeof(T)
get_vec4_width_bytes(size) == size

\* the width property_atom<T>::get_vec4 resizes val to
get_vec4_width(size) == 8 * size

\* property_atom<T>::get_vec4: the vector read from the slot
atom_get_vec4(type, buf) ==
    LET size == instance_size(type)
        signed == type.kind \in SignedTags
        src == bytes_to_bits(read_bytes(buf, type.offset_, size))
        tmp == [idx \in 1..tmp_cnt(size) |->
                   IF idx = 1 THEN to_unsigned_long(src, signed)
                   ELSE to_unsigned_long(
                            shift_right(src, (idx - 1) * 8 * SizeofLong,
                                        signed), signed)]
    IN setarray(get_vec4_width(size), tmp)

\* an assertion on flag that is compiled out
flag_asserted_never(flag) == TRUE

\* assert(flag) of property_atom<T>::set_vec4
flag_asserted(flag) == flag

\* a string object that keeps four characters at most
string_object_short(s) ==
    [k \in 1..SizeofString |->
        IF k = 1 THEN (IF Len(s) < 4 THEN Len(s) ELSE 4)
        ELSE IF k - 1 <= Len(s) /\ k - 1 <= 4 THEN s[k - 1] ELSE 0]

\* the bytes of a std::string object holding s, a string of fewer than
\* SizeofString characters, in place: length, characters
string_object(s) ==
    [k \in 1..SizeofString |->
        IF k = 1 THEN Len(s) ELSE IF k - 1 <= Len(s) THEN s[k - 1] ELSE 0]

\* the string a std::string object holds
string_value(bytes) == [k \in 1..bytes[1] |-> bytes[k + 1]]

\* the bytes of a vvp_object_t holding handle h
object_bytes(h) == [k \in 1..SizeofObject |-> IF k = 1 THEN h ELSE 0]

\* the handle a vvp_object_t holds
object_value(bytes) == bytes[1]

\* the bytes of the double 0.0
RealZero == [k \in 1..SizeofDouble |-> 0]

\* *tmp = val of a property_real<float>: the low 29 bits of the fraction
\* are lost
double_to_T_float(val) ==
    [k \in 1..SizeofDouble |->
        IF k <= 3 THEN 0
        ELSE IF k = 4 THEN 32 * (val[4] \div 32) ELSE val[k]]

\* *tmp = val of property_real<T>, T being double: the same eight bytes
double_to_T(val) == val

\* every kind answering every accessor family
overrides_all(kind, family) == TRUE

\* the accessors each concrete property class overrides
overrides(kind, family) ==
    CASE family = "vec4"   -> kind \in AtomTags
      [] family = "real"   -> kind = "r"
      [] family = "string" -> kind = "S"
      [] family = "object" -> kind = "o"

\* the construct() of class_property_t, which leaves the bytes as they are
atom_construct_default(old) == old

\* *tmp = 0 of property_atom<T>::construct: sizeof(T) zero bytes
atom_construct(old) == [k \in 1..Len(old) |-> 0]

\* construct() of each concrete property class
construct(type, buf) ==
    write_bytes(buf, type.offset_,
        CASE type.kind \in AtomTags ->
                 atom_construct(read_bytes(buf, type.offset_,
                                           instance_size(type)))
          [] type.kind = "r" -> RealZero
          [] type.kind = "S" -> string_object(<< >>)
          [] type.kind = "o" -> object_bytes(0))

\* the property classes whose construct() creates a C++ object that owns a
\* resource (the characters of a std::string, the reference of a
\* vvp_object_t)
creates_object(kind) == kind \in {"S", "o"}

\* the loop of instance_new and instance_delete visiting one index in two
loop_step_two(idx) == idx + 2

\* idx += 1 of the loops of instance_new and instance_delete
loop_step(idx) == idx + 1

\* class_type::instance_new: the buffer after every construct(), the
\* objects living in it (by offset), and the calls made, in order
instance_new(cls) ==
    LET RECURSIVE loop(_, _)
        loop(idx, st) ==
            IF ~(idx < Len(cls.properties_)) THEN st
            ELSE LET type == cls.properties_[idx + 1].type
                 IN loop(loop_step(idx),
                         [buf |-> construct(type, st.buf),
                          objs |-> IF creates_object(type.kind)
                                   THEN st.objs \cup {type.offset_}
                                   ELSE st.objs,
                          trace |-> Append(st.trace,
                                           [ev |-> "construct", idx |-> idx])])
    IN loop(0, [buf |-> [k \in 1..cls.instance_size_ |-> Indeterminate],
                objs |-> {},
                trace |-> <<[ev |-> "new char[]",
                             size |-> cls.instance_size_]>>])

\* a property_string without a destruct() of its own
has_destruct_object_only(kind) == kind = "o"

\* the property classes that override destruct()
has_destruct(kind) == kind \in {"S", "o"}

\* class_type::instance_delete: the objects still living in the buffer when
\* it is freed, and the calls made, in order
instance_delete(cls, objs) ==
    LET RECURSIVE loop(_, _)
        loop(idx, st) ==
            IF ~(idx < Len(cls.properties_))
            THEN [st EXCEPT !.trace = Append(@, [ev |-> "delete[]"])]
            ELSE LET type == cls.properties_[idx + 1].type
                 IN loop(loop_step(idx),
                         [objs |-> IF has_destruct(type.kind)
                                   THEN st.objs \ {type.offset_}
                                   ELSE st.objs,
                          trace |-> Append(st.trace,
                                           [ev |-> "destruct", idx |-> idx])])
    IN loop(0, [objs |-> objs, trace |-> << >>])

\* an index check that lets pid == properties_.size() pass
pid_in_range_inclusive(pid, cls) == pid <= Len(cls.properties_)

\* assert(pid < properties_.size()) of the accessors of class_type
pid_in_range(pid, cls) == pid < Len(cls.properties_)

\* properties_[pid].type; past the end of the vector the read is undefined
\* and may yield any property object
types_at(cls, pid) ==
    IF pid < Len(cls.properties_) THEN {cls.properties_[pid + 1].type}
    ELSE {[kind |-> k, offset_ |-> 0] : k \in KnownTags}

----------------------------------------------------------------------------
(* The state after start-up: no class, no scope, no instance. *)

NoCall == [op |-> "none"]

Init ==
    /\ heap = << >>
    /\ compile_class = 0
    /\ vpi_symbols = {}
    /\ current_scope = 0
    /\ scope_classes = [s \in Scopes |-> [n \in ClassNames |-> 0]]
    /\ insts = << >>
    /\ fatal = "none"
    /\ finished = {}
    /\ call = NoCall

\* a failed assert(): the process aborts, nothing else changes
Abort(assertion, c) ==
    /\ fatal' = assertion
    /\ call' = c
    /\ UNCHANGED <<heap, compile_class, vpi_symbols, current_scope,
                   scope_classes, insts, finished>>

----------------------------------------------------------------------------
(* The .class compile protocol *)

\* the scope directive of the loader makes scope s the current scope
compile_scope(s) ==
    /\ fatal = "none"
    /\ current_scope # s
    /\ current_scope' = s
    /\ call' = [op |-> "compile_scope", scope |-> s]
    /\ UNCHANGED <<heap, compile_class, vpi_symbols, scope_classes, insts,
                   fatal, finished>>

\* start_allowed without the check
start_allowed_always(cc) == TRUE

\* the assertion of compile_class_start
start_allowed(cc) == cc = 0

compile_class_start(lab, nam, ntype) ==
    LET c == [op |-> "compile_class_start", lab |-> lab, nam |-> nam,
              ntype |-> ntype]
    IN /\ fatal = "none"
       /\ IF ~start_allowed(compile_class)
          THEN Abort("compile_class == 0", c)
          ELSE /\ heap' = Append(heap, class_type(nam, ntype))
               /\ compile_class' = Len(heap) + 1
               /\ vpi_symbols' = vpi_symbols \cup {<<lab, Len(heap) + 1>>}
               /\ call' = c
               /\ UNCHANGED <<current_scope, scope_classes, insts, fatal,
                              finished>>

compile_class_property(idx, nam, typ) ==
    LET c == [op |-> "compile_class_property", idx |-> idx, nam |-> nam,
              typ |-> typ]
    IN /\ fatal = "none"
       /\ IF compile_class = 0
          THEN Abort("compile_class", c)
          ELSE IF ~(idx < Len(heap[compile_class].properties_))
          THEN Abort("idx < properties_.size()", c)
          ELSE /\ heap' = [heap EXCEPT ![compile_class] =
                              set_property(@, idx, nam, typ)]
               /\ call' = c
               /\ UNCHANGED <<compile_class, vpi_symbols, current_scope,
                              scope_classes, insts, fatal, finished>>

\* clear_compile_class leaving the pointer as it is
clear_compile_class_kept(cc) == cc

\* compile_class = 0 at the end of compile_class_done
clear_compile_class(cc) == 0

\* an insertion that keeps the entry a name already has (std::map::insert)
register_if_absent(classes, name, cc) ==
    IF classes[name] # 0 THEN classes ELSE [classes EXCEPT ![name] = cc]

\* scope->classes[name] = compile_class
register(classes, name, cc) == [classes EXCEPT ![name] = cc]

compile_class_done ==
    LET c == [op |-> "compile_class_done"]
    IN /\ fatal = "none"
       /\ IF current_scope = 0
          THEN Abort("scope", c)
          ELSE IF compile_class = 0
          THEN Abort("compile_class", c)
          ELSE IF ~all_types_set(heap[compile_class])
          THEN Abort("properties_[idx].type", c)
          ELSE /\ heap' = [heap EXCEPT ![compile_class] = finish_setup(@)]
               /\ finished' = finished \cup {compile_class}
               /\ scope_classes' =
                      [scope_classes EXCEPT ![current_scope] =
                          register(@, heap[compile_class].class_name_,
                                   compile_class)]
               /\ compile_class' = clear_compile_class(compile_class)
               /\ call' = c
               /\ UNCHANGED <<vpi_symbols, current_scope, insts, fatal>>

----------------------------------------------------------------------------
(* The layout runs: one class is compiled in a scope by directives in the  *)
(* order the compiler emits them (scope, class, properties, end of class), *)
(* with every type code, the properties declared in any order and any      *)
(* number of times.                                                        *)

LayoutScope ==
    /\ heap = << >>
    /\ compile_scope(1)

LayoutStart ==
    /\ heap = << >>
    /\ current_scope # 0
    /\ \E lab \in Labels, ntype \in 0..MaxProps :
           compile_class_start(lab, "A", ntype)

LayoutProperty ==
    /\ compile_class # 0
    /\ \E idx \in 0..(MaxProps - 1), typ \in AllTags :
           compile_class_property(idx, "p", typ)

LayoutDone ==
    /\ compile_class # 0
    /\ compile_class_done

NextLayout == LayoutScope \/ LayoutStart \/ LayoutProperty \/ LayoutDone

SpecLayout == Init /\ [][NextLayout]_vars

----------------------------------------------------------------------------
(* The protocol runs: the loader issues scope and class directives in any  *)
(* order, well formed or not, for up to MaxClasses classes.                *)

ProtoScope == \E s \in Scopes : compile_scope(s)

ProtoStart ==
    /\ Len(heap) < MaxClasses
    /\ \E lab \in Labels, nam \in ClassNames, ntype \in ProtoCounts :
           compile_class_start(lab, nam, ntype)

ProtoProperty ==
    \E idx \in ProtoCounts, typ \in ProtoTags :
        compile_class_property(idx, "p", typ)

ProtoDone == compile_class_done

Next == ProtoScope \/ ProtoStart \/ ProtoProperty \/ ProtoDone

Spec == Init /\ [][Next]_vars

----------------------------------------------------------------------------
(* The method runs: one class is compiled by directives issued in any      *)
(* order, and a caller holding the class_type that compile_class_done has  *)
(* finished calls its public methods finish_setup and set_property.        *)

class_finish_setup(cls) ==
    LET c == [op |-> "finish_setup", cls |-> cls]
    IN /\ fatal = "none"
       /\ IF ~all_types_set(heap[cls])
          THEN Abort("properties_[idx].type", c)
          ELSE /\ heap' = [heap EXCEPT ![cls] = finish_setup(@)]
               /\ finished' = finished \cup {cls}
               /\ call' = c
               /\ UNCHANGED <<compile_class, vpi_symbols, current_scope,
                              scope_classes, insts, fatal>>

class_set_property(cls, idx, name, type) ==
    LET c == [op |-> "set_property", cls |-> cls, idx |-> idx,
              nam |-> name, typ |-> type]
    IN /\ fatal = "none"
       /\ IF ~(idx < Len(heap[cls].properties_))
          THEN Abort("idx < properties_.size()", c)
          ELSE /\ heap' = [heap EXCEPT ![cls] =
                              set_property(@, idx, name, type)]
               /\ call' = c
               /\ UNCHANGED <<compile_class, vpi_symbols, current_scope,
                              scope_classes, insts, fatal, finished>>

ApiStart ==
    /\ heap = << >>
    /\ \E lab \in Labels, nam \in ClassNames, ntype \in ProtoCounts :
           compile_class_start(lab, nam, ntype)

ApiFinishSetup == \E cls \in finished : class_finish_setup(cls)

ApiSetProperty ==
    \E cls \in finished, idx \in ProtoCounts, typ \in ProtoTags :
        class_set_property(cls, idx, "p", typ)

NextApi ==
    \/ ProtoScope \/ ApiStart \/ ProtoProperty \/ ProtoDone
    \/ ApiFinishSetup \/ ApiSetProperty

SpecApi == Init /\ [][NextApi]_vars

----------------------------------------------------------------------------
(* The declaration runs: one class of two properties is compiled, with up  *)
(* to MaxDecls declarations in any index order, an index declared any      *)
(* number of times.  The k-th declaration of the stream names its property *)
(* dk, so that a slot tells which declaration wrote it last.               *)

\* number of declarations in the build
MaxDecls == 4

DeclNames == <<"d1", "d2", "d3", "d4", "d5", "d6">>
DeclTags == {"b8", "b32", "S", "v4"}
DeclIdx == {0, 1}

\* the position in the stream of the declaration that named a property
StampOf(name) ==
    IF name = "" THEN 0
    ELSE CHOOSE k \in 1..Len(DeclNames) : DeclNames[k] = name

\* the number of declarations made so far in the build of cls
DeclsMade(cls) ==
    Max({0} \cup {StampOf(cls.properties_[i].name) :
                     i \in 1..Len(cls.properties_)})

DeclStart ==
    /\ heap = << >>
    /\ current_scope # 0
    /\ \E lab \in Labels : compile_class_start(lab, "A", 2)

DeclProperty ==
    /\ compile_class # 0
    /\ DeclsMade(heap[compile_class]) < MaxDecls
    /\ \E idx \in DeclIdx, typ \in DeclTags :
           compile_class_property(
               idx, DeclNames[DeclsMade(heap[compile_class]) + 1], typ)

NextDecl == LayoutScope \/ DeclStart \/ DeclProperty \/ LayoutDone

SpecDecl == Init /\ [][NextDecl]_vars

----------------------------------------------------------------------------
(* Instances and the typed accessors of class_type.  The callers hold      *)
(* finished classes and live instances; pid and the values are theirs.     *)

\* the part of the state no operation on an instance touches
UnchangedByAccessors ==
    UNCHANGED <<heap, compile_class, vpi_symbols, current_scope,
                scope_classes, finished>>

ClassOf(obj) == heap[insts[obj].cls]

class_instance_new(cls) ==
    LET r == instance_new(heap[cls])
    IN /\ fatal = "none"
       /\ insts' = Append(insts, [cls |-> cls, live |-> TRUE, buf |-> r.buf,
                                  objs |-> r.objs])
       /\ call' = [op |-> "instance_new", cls |-> cls,
                   ret |-> Len(insts) + 1, trace |-> r.trace]
       /\ UNCHANGED fatal
       /\ UnchangedByAccessors

\* destruct() of every property, then delete[]: the buffer is gone; objs
\* keeps the objects that were never destructed
class_instance_delete(obj) ==
    LET r == instance_delete(ClassOf(obj), insts[obj].objs)
    IN /\ fatal = "none"
       /\ insts[obj].live
       /\ insts' = [insts EXCEPT ![obj] = [@ EXCEPT !.live = FALSE,
                                                    !.buf = << >>,
                                                    !.objs = r.objs]]
       /\ call' = [op |-> "instance_delete", obj |-> obj, trace |-> r.trace]
       /\ UNCHANGED fatal
       /\ UnchangedByAccessors

\* a setter that got past the assertions: the slot's bytes are replaced
Store(c, obj, type, bytes) ==
    /\ insts' = [insts EXCEPT ![obj].buf = write_bytes(@, type.offset_, bytes)]
    /\ call' = c
    /\ UNCHANGED fatal
    /\ UnchangedByAccessors

\* a getter that got past the assertions: it returns ret
Return(c, ret) ==
    /\ call' = [op |-> c.op, obj |-> c.obj, pid |-> c.pid, ret |-> ret]
    /\ UNCHANGED <<insts, fatal>>
    /\ UnchangedByAccessors

\* the bytes of the slot of `type` in the buffer of obj
SlotBytes(obj, type) ==
    read_bytes(insts[obj].buf, type.offset_, instance_size(type))

class_set_vec4(obj, pid, val) ==
    LET c == [op |-> "set_vec4", obj |-> obj, pid |-> pid, val |-> val]
    IN /\ fatal = "none"
       /\ insts[obj].live
       /\ IF ~pid_in_range(pid, ClassOf(obj))
          THEN Abort("pid < properties_.size()", c)
          ELSE \E type \in types_at(ClassOf(obj), pid) :
                 IF ~overrides(type.kind, "vec4") THEN Abort("0", c)
                 ELSE LET r == vector4_to_value(val, 8 * instance_size(type),
                                                TRUE, FALSE)
                      IN IF ~flag_asserted(r.flag) THEN Abort("flag", c)
                         ELSE Store(c, obj, type, bits_to_bytes(r.val))

class_get_vec4(obj, pid) ==
    LET c == [op |-> "get_vec4", obj |-> obj, pid |-> pid]
    IN /\ fatal = "none"
       /\ insts[obj].live
       /\ IF ~pid_in_range(pid, ClassOf(obj))
          THEN Abort("pid < properties_.size()", c)
          ELSE \E type \in types_at(ClassOf(obj), pid) :
                 IF ~overrides(type.kind, "vec4") THEN Abort("0", c)
                 ELSE Return(c, atom_get_vec4(type, insts[obj].buf))

class_set_real(obj, pid, val) ==
    LET c == [op |-> "set_real", obj |-> obj, pid |-> pid, val |-> val]
    IN /\ fatal = "none"
       /\ insts[obj].live
       /\ IF ~pid_in_range(pid, ClassOf(obj))
          THEN Abort("pid < properties_.size()", c)
          ELSE \E type \in types_at(ClassOf(obj), pid) :
                 IF ~overrides(type.kind, "real") THEN Abort("0", c)
                 ELSE Store(c, obj, type, double_to_T(val))

class_get_real(obj, pid) ==
    LET c == [op |-> "get_real", obj |-> obj, pid |-> pid]
    IN /\ fatal = "none"
       /\ insts[obj].live
       /\ IF ~pid_in_range(pid, ClassOf(obj))
          THEN Abort("pid < properties_.size()", c)
          ELSE \E type \in types_at(ClassOf(obj), pid) :
                 IF ~overrides(type.kind, "real") THEN Abort("0", c)
                 ELSE Return(c, SlotBytes(obj, type))

class_set_string(obj, pid, val) ==
    LET c == [op |-> "set_string", obj |-> obj, pid |-> pid, val |-> val]
    IN /\ fatal = "none"
       /\ insts[obj].live
       /\ IF ~pid_in_range(pid, ClassOf(obj))
          THEN Abort("pid < properties_.size()", c)
          ELSE \E type \in types_at(ClassOf(obj), pid) :
                 IF ~overrides(type.kind, "string") THEN Abort("0", c)
                 ELSE Store(c, obj, type, string_object(val))

class_get_string(obj, pid) ==
    LET c == [op |-> "get_string", obj |-> obj, pid |-> pid]
    IN /\ fatal = "none"
       /\ insts[obj].live
       /\ IF ~pid_in_range(pid, ClassOf(obj))
          THEN Abort("pid < properties_.size()", c)
          ELSE \E type \in types_at(ClassOf(obj), pid) :
                 IF ~overrides(type.kind, "string") THEN Abort("0", c)
                 ELSE Return(c, string_value(SlotBytes(obj, type)))

class_set_object(obj, pid, val) ==
    LET c == [op |-> "set_object", obj |-> obj, pid |-> pid, val |-> val]
    IN /\ fatal = "none"
       /\ insts[obj].live
       /\ IF ~pid_in_range(pid, ClassOf(obj))
          THEN Abort("pid < properties_.size()", c)
          ELSE \E type \in types_at(ClassOf(obj), pid) :
                 IF ~overrides(type.kind, "object") THEN Abort("0", c)
                 ELSE Store(c, obj, type, object_bytes(val))

class_get_object(obj, pid) ==
    LET c == [op |-> "get_object", obj |-> obj, pid |-> pid]
    IN /\ fatal = "none"
       /\ insts[obj].live
       /\ IF ~pid_in_range(pid, ClassOf(obj))
          THEN Abort("pid < properties_.size()", c)
          ELSE \E type \in types_at(ClassOf(obj), pid) :
                 IF ~overrides(type.kind, "object") THEN Abort("0", c)
                 ELSE Return(c, object_value(SlotBytes(obj, type)))

----------------------------------------------------------------------------
(* Input values of the accessors. *)

Rep(d, n) == [i \in 1..n |-> d]
\* 32 digits 1001 0011 ... with digit 31 set
Vec32A == [i \in 1..32 |-> IF i % 3 = 1 \/ i = 32 THEN BIT4_1 ELSE BIT4_0]
\* 32 digits with digit 31 clear
Vec32B == [i \in 1..32 |-> IF i % 5 = 2 THEN BIT4_1 ELSE BIT4_0]
\* 64 digits
Vec64A == [i \in 1..64 |-> IF i % 7 = 3 \/ i > 60 THEN BIT4_1 ELSE BIT4_0]
\* 8 and 16 digits, top digit set
Vec8A == <<1, 0, 1, 1, 0, 0, 0, 1>>
Vec16A == [i \in 1..16 |-> IF i % 2 = 0 THEN BIT4_1 ELSE BIT4_0]
\* 5 digits, top digit set: narrower than every integer kind
Vec5A == <<1, 0, 0, 1, 1>>
\* 40 digits: wider than 32
Vec40A == [i \in 1..40 |-> IF i % 4 = 1 THEN BIT4_1 ELSE BIT4_0]
\* vectors with an X or a Z digit
Vec32X == [Vec32A EXCEPT ![7] = BIT4_X]
Vec32Z == [Vec32B EXCEPT ![32] = BIT4_Z]
Vec8Z == [Vec8A EXCEPT ![1] = BIT4_Z]
Vec40X == [Vec40A EXCEPT ![36] = BIT4_X]
Vec64X == Rep(BIT4_X, 64)

Vec4Inputs == {Rep(BIT4_0, 32), Rep(BIT4_1, 32), Vec32A, Vec32B, Vec64A,
               Vec8A, Vec16A, Vec5A, Vec40A,
               Vec32X, Vec32Z, Vec8Z, Vec40X, Vec64X}

\* the doubles 0.0, 3.14, -1.5, -0.0 and a NaN with a payload, in memory
Real314 == <<31, 133, 235, 81, 184, 30, 9, 64>>
RealNeg == <<0, 0, 0, 0, 0, 0, 248, 191>>
RealNegZero == <<0, 0, 0, 0, 0, 0, 0, 128>>
RealNaN == <<1, 0, 0, 0, 0, 0, 248, 127>>
RealInputs == {RealZero, Real314, RealNeg, RealNegZero, RealNaN}

\* the strings "", "hi" and "hello"
StringInputs == {<< >>, <<104, 105>>, <<104, 101, 108, 108, 111>>}

ObjectInputs == {0, 1, 2}

----------------------------------------------------------------------------
(* The kind runs: one class with one property of any kind is compiled,     *)
(* one instance of it is made, and the accessors are called with any pid   *)
(* and any value.                                                          *)

KindStart ==
    /\ heap = << >>
    /\ current_scope # 0
    /\ \E lab \in Labels : compile_class_start(lab, "A", 1)

KindProperty ==
    /\ compile_class # 0
    /\ \E typ \in AllTags : compile_class_property(0, "p", typ)

KindNew ==
    /\ insts = << >>
    /\ \E cls \in finished : class_instance_new(cls)

LiveInsts == {obj \in 1..Len(insts) : insts[obj].live}
KindPids == {0, 1}

KindSetVec4 ==
    \E obj \in LiveInsts, pid \in KindPids, val \in Vec4Inputs :
        class_set_vec4(obj, pid, val)
KindGetVec4 ==
    \E obj \in LiveInsts, pid \in KindPids : class_get_vec4(obj, pid)
KindSetReal ==
    \E obj \in LiveInsts, pid \in KindPids, val \in RealInputs :
        class_set_real(obj, pid, val)
KindGetReal ==
    \E obj \in LiveInsts, pid \in KindPids : class_get_real(obj, pid)
KindSetString ==
    \E obj \in LiveInsts, pid \in KindPids, val \in StringInputs :
        class_set_string(obj, pid, val)
KindGetString ==
    \E obj \in LiveInsts, pid \in KindPids : class_get_string(obj, pid)
KindSetObject ==
    \E obj \in LiveInsts, pid \in KindPids, val \in ObjectInputs :
        class_set_object(obj, pid, val)
KindGetObject ==
    \E obj \in LiveInsts, pid \in KindPids : class_get_object(obj, pid)
KindDelete == \E obj \in LiveInsts : class_instance_delete(obj)

NextKind ==
    \/ LayoutScope \/ KindStart \/ KindProperty \/ LayoutDone
    \/ KindNew \/ KindDelete
    \/ KindSetVec4 \/ KindGetVec4 \/ KindSetReal \/ KindGetReal
    \/ KindSetString \/ KindGetString \/ KindSetObject \/ KindGetObject

SpecKind == Init /\ [][NextKind]_vars

----------------------------------------------------------------------------
(* The instance runs: one class of up to two properties is compiled, up to *)
(* MaxInsts instances of it are made and deleted, and the accessors are    *)
(* called on the live ones with any pid.                                   *)

InstTags == {"b8", "sb16", "b32", "r", "S", "o"}
InstCounts == {0, 1, 2}
InstPids == {0, 1, 2, 3}
InstVecs == {Vec32A, Vec8Z}

InstStart ==
    /\ heap = << >>
    /\ current_scope # 0
    /\ \E lab \in Labels, ntype \in InstCounts :
           compile_class_start(lab, "A", ntype)

InstProperty ==
    /\ compile_class # 0
    /\ \E idx \in InstCounts, typ \in InstTags :
           compile_class_property(idx, "p", typ)

InstNew ==
    /\ Len(insts) < MaxInsts
    /\ \E cls \in finished : class_instance_new(cls)

InstSetVec4 ==
    \E obj \in LiveInsts, pid \in InstPids, val \in InstVecs :
        class_set_vec4(obj, pid, val)
InstGetVec4 ==
    \E obj \in LiveInsts, pid \in InstPids : class_get_vec4(obj, pid)
InstSetReal ==
    \E obj \in LiveInsts, pid \in InstPids : class_set_real(obj, pid, Real314)
InstGetReal ==
    \E obj \in LiveInsts, pid \in InstPids : class_get_real(obj, pid)
InstSetString ==
    \E obj \in LiveInsts, pid \in InstPids :
        class_set_string(obj, pid, <<104, 105>>)
InstGetString ==
    \E obj \in LiveInsts, pid \in InstPids : class_get_string(obj, pid)
InstSetObject ==
    \E obj \in LiveInsts, pid \in InstPids : class_set_object(obj, pid, 1)
InstGetObject ==
    \E obj \in LiveInsts, pid \in InstPids : class_get_object(obj, pid)

NextInst ==
    \/ LayoutScope \/ InstStart \/ InstProperty \/ LayoutDone
    \/ InstNew \/ KindDelete
    \/ InstSetVec4 \/ InstGetVec4 \/ InstSetReal \/ InstGetReal
    \/ InstSetString \/ InstGetString \/ InstSetObject \/ InstGetObject

SpecInst == Init /\ [][NextInst]_vars

----------------------------------------------------------------------------
(* The slot runs: one class of two properties, each of an integer, real,   *)
(* string or object kind, is compiled, up to MaxFrameInsts instances of it *)
(* are made, and the accessors matching the kind of a property are called  *)
(* on either property of any of them.                                      *)

\* number of instances the slot runs make
MaxFrameInsts == 2

FrameTags == {"b16", "r", "S", "o"}
FramePids == {0, 1}
FrameStrings == {<<104, 105>>, <<104, 101, 108, 108, 111>>}

FrameStart ==
    /\ heap = << >>
    /\ current_scope # 0
    /\ \E lab \in Labels : compile_class_start(lab, "A", 2)

FrameProperty ==
    /\ compile_class # 0
    /\ \E idx \in FramePids, typ \in FrameTags :
           compile_class_property(idx, "p", typ)

FrameNew ==
    /\ Len(insts) < MaxFrameInsts
    /\ \E cls \in finished : class_instance_new(cls)

\* the callers use the accessors that match the kind of the property
FrameMatch(obj, pid, family) ==
    overrides(ClassOf(obj).properties_[pid + 1].type.kind, family)

FrameSetVec4 ==
    \E obj \in LiveInsts, pid \in FramePids :
        FrameMatch(obj, pid, "vec4") /\ class_set_vec4(obj, pid, Vec16A)
FrameGetVec4 ==
    \E obj \in LiveInsts, pid \in FramePids :
        FrameMatch(obj, pid, "vec4") /\ class_get_vec4(obj, pid)
FrameSetReal ==
    \E obj \in LiveInsts, pid \in FramePids :
        FrameMatch(obj, pid, "real") /\ class_set_real(obj, pid, Real314)
FrameGetReal ==
    \E obj \in LiveInsts, pid \in FramePids :
        FrameMatch(obj, pid, "real") /\ class_get_real(obj, pid)
FrameSetString ==
    \E obj \in LiveInsts, pid \in FramePids, val \in FrameStrings :
        FrameMatch(obj, pid, "string") /\ class_set_string(obj, pid, val)
FrameGetString ==
    \E obj \in LiveInsts, pid \in FramePids :
        FrameMatch(obj, pid, "string") /\ class_get_string(obj, pid)
FrameSetObject ==
    \E obj \in LiveInsts, pid \in FramePids :
        FrameMatch(obj, pid, "object") /\ class_set_object(obj, pid, 1)
FrameGetObject ==
    \E obj \in LiveInsts, pid \in FramePids :
        FrameMatch(obj, pid, "object") /\ class_get_object(obj, pid)

NextFrame ==
    \/ LayoutScope \/ FrameStart \/ FrameProperty \/ LayoutDone
    \/ FrameNew
    \/ FrameSetVec4 \/ FrameGetVec4 \/ FrameSetReal \/ FrameGetReal
    \/ FrameSetString \/ FrameGetString \/ FrameSetObject \/ FrameGetObject

SpecFrame == Init /\ [][NextFrame]_vars

----------------------------------------------------------------------------
(* The shared runs: a first and a later class are compiled, by directives  *)
(* well formed or not, while up to MaxInsts instances of the finished ones *)
(* are made, written, read and deleted.                                    *)

SharedTags == {"b8", "S"}
SharedCounts == {1, 2}
SharedPids == {0, 1}
SharedClasses == {1, 2}

SharedStart ==
    /\ Len(heap) + 1 \in SharedClasses
    /\ current_scope # 0
    /\ \E lab \in Labels, ntype \in SharedCounts :
           compile_class_start(lab, "A", ntype)

SharedProperty ==
    \E idx \in SharedPids, typ \in SharedTags :
        compile_class_property(idx, "p", typ)

SharedNew ==
    /\ Len(insts) < MaxInsts
    /\ \E cls \in finished : class_instance_new(cls)

SharedSetVec4 ==
    \E obj \in LiveInsts, pid \in SharedPids : class_set_vec4(obj, pid, Vec8A)
SharedGetVec4 ==
    \E obj \in LiveInsts, pid \in SharedPids : class_get_vec4(obj, pid)
SharedSetString ==
    \E obj \in LiveInsts, pid \in SharedPids :
        class_set_string(obj, pid, <<104, 105>>)
SharedGetString ==
    \E obj \in LiveInsts, pid \in SharedPids : class_get_string(obj, pid)

NextShared ==
    \/ LayoutScope \/ SharedStart \/ SharedProperty \/ ProtoDone
    \/ SharedNew \/ KindDelete
    \/ SharedSetVec4 \/ SharedGetVec4 \/ SharedSetString \/ SharedGetString

SpecShared == Init /\ [][NextShared]_vars

----------------------------------------------------------------------------
(* Properties of the layout (checked in the layout runs). *)

Props(c) == heap[c].properties_
SizeAt(c, i) == instance_size(Props(c)[i].type)
OffsetAt(c, i) == Props(c)[i].type.offset_
Kinds(c) == [i \in 1..Len(Props(c)) |-> Props(c)[i].type.kind]
Offsets(c) == [i \in 1..Len(Props(c)) |-> OffsetAt(c, i)]

RECURSIVE SumSeq(_)
SumSeq(q) == IF q = << >> THEN 0 ELSE Head(q) + SumSeq(Tail(q))

\* C1: in every finished class the offsets follow descending size, ties in
\* declaration order: a larger slot lies before a smaller one, of two slots
\* of equal size the one declared at the lower index lies first, the
\* largest, lowest-index slot is at offset 0, and sizes 1, 8, 4 declared at
\* indices 0, 1, 2 get offsets 12, 0, 8.
C1_DescendingSizeOrder ==
    \A c \in finished :
        LET n == Len(Props(c))
        IN /\ \A a, b \in 1..n :
                 /\ SizeAt(c, a) > SizeAt(c, b) => OffsetAt(c, a) < OffsetAt(c, b)
                 /\ (SizeAt(c, a) = SizeAt(c, b) /\ a < b)
                        => OffsetAt(c, a) < OffsetAt(c, b)
           /\ \A a \in 1..n :
                 (\A b \in 1..n :
                      \/ SizeAt(c, b) < SizeAt(c, a)
                      \/ (SizeAt(c, b) = SizeAt(c, a) /\ a <= b))
                 => OffsetAt(c, a) = 0
           /\ [i \in 1..n |-> SizeAt(c, i)] = <<1, 8, 4>>
                 => Offsets(c) = <<12, 0, 8>>

\* a class declared UInt8, UInt64, UInt32 was finished
C1_Witness ==
    \E c \in finished :
        /\ Kinds(c) = <<"b8", "b64", "b32">>
        /\ Offsets(c) = <<12, 0, 8>>

\* C2: in every finished class instance_size_ is the sum of the sizes of its
\* slots, and is the end offset of the slot that lies last.
C2_SizeAdditivity ==
    \A c \in finished :
        LET n == Len(Props(c))
        IN /\ heap[c].instance_size_ = SumSeq([i \in 1..n |-> SizeAt(c, i)])
           /\ \A a \in 1..n :
                 (\A b \in 1..n : OffsetAt(c, b) <= OffsetAt(c, a))
                 => heap[c].instance_size_ = OffsetAt(c, a) + SizeAt(c, a)

\* a class of a string, a byte and a real was finished: 41 bytes
C2_Witness ==
    \E c \in finished :
        /\ Kinds(c) = <<"S", "b8", "r">>
        /\ heap[c].instance_size_ = 41
        /\ OffsetAt(c, 2) + SizeAt(c, 2) = 41

\* C3: in every finished class the offsets are pairwise distinct, every
\* slot's bytes lie in [0, instance_size_), and the byte ranges of two
\* different slots are disjoint.
C3_DisjointRanges ==
    \A c \in finished :
        LET n == Len(Props(c))
        IN /\ \A a \in 1..n :
                 /\ 0 <= OffsetAt(c, a)
                 /\ OffsetAt(c, a) < heap[c].instance_size_
                 /\ OffsetAt(c, a) + SizeAt(c, a) <= heap[c].instance_size_
           /\ \A a, b \in 1..n :
                 a # b =>
                    /\ OffsetAt(c, a) # OffsetAt(c, b)
                    /\ \/ OffsetAt(c, a) + SizeAt(c, a) <= OffsetAt(c, b)
                       \/ OffsetAt(c, b) + SizeAt(c, b) <= OffsetAt(c, a)

\* a class with two slots of one size and one of another was finished
C3_Witness ==
    \E c \in finished :
        /\ Kinds(c) = <<"sb16", "o", "b16">>
        /\ heap[c].instance_size_ = 12

----------------------------------------------------------------------------
(* Properties of the compile protocol. *)

Unfinished == {c \in 1..Len(heap) : c \notin finished}

\* C4: at most one class is under construction at any time, and
\* compile_class_start called while a class is under construction is fatal
\* and changes neither compile_class nor any class_type nor the registries.
C4_SingleBuild ==
    [][ /\ Unfinished' \subseteq {compile_class'}
        /\ (call'.op = "compile_class_start" /\ compile_class # 0)
              => /\ fatal' # "none"
                 /\ UNCHANGED <<heap, compile_class, scope_classes,
                                vpi_symbols>> ]_vars

\* compile_class_start was called while a class was under construction
C4_Witness ==
    /\ call.op = "compile_class_start"
    /\ fatal = "compile_class == 0"
    /\ compile_class # 0
    /\ compile_class \notin finished

\* C5 as amended: the compile protocol finishes a class at most once: the
\* class under construction is never a finished one, and after
\* compile_class_done, until the next compile_class_start,
\* compile_class_done and compile_class_property are fatal and leave every
\* class_type and registry as it was; class_type itself does not refuse:
\* finish_setup on a finished class whose types are all set, and
\* set_property with an index in range on a finished class, are not fatal.
C5_FrozenByProtocol ==
    [][ /\ compile_class' \notin finished'
        /\ (/\ call'.op \in {"compile_class_done", "compile_class_property"}
            /\ finished # {}
            /\ Unfinished = {})
              => /\ fatal' # "none"
                 /\ UNCHANGED <<heap, scope_classes, finished>>
        /\ (call'.op = "finish_setup" /\ all_types_set(heap[call'.cls]))
              => fatal' = "none"
        /\ (/\ call'.op = "set_property"
            /\ call'.idx < Len(Props(call'.cls)))
              => fatal' = "none" ]_vars

\* compile_class_done was called again after a class was finished
C5_Witness ==
    /\ call.op = "compile_class_done"
    /\ fatal = "compile_class"
    /\ finished # {}
    /\ \E c \in finished : Len(Props(c)) = 2

\* C5 as stated: finish_setup on a finished class, and set_property on a
\* finished class, are fatal and leave the class as it was.
C5_Original ==
    [][ (/\ call'.op \in {"finish_setup", "set_property"}
         /\ call'.cls \in finished)
           => /\ fatal' # "none"
              /\ heap' = heap ]_vars

\* C6: compile_class_property never fails on its type code, it leaves the
\* slot without a type exactly when the code is none of the eleven known
\* ones, a slot never declared has no type, and compile_class_done on a
\* class with a slot without a type is fatal and registers no class.
C6_UnresolvedKindFatalAtFreeze ==
    [][ /\ (call'.op = "compile_class_start" /\ fatal' = "none")
              => \A i \in 1..Len(Props(compile_class)') :
                     Props(compile_class)'[i].type = NullType
        /\ (/\ call'.op = "compile_class_property"
            /\ compile_class # 0
            /\ call'.idx < Len(Props(compile_class)))
              => /\ fatal' = "none"
                 /\ (Props(compile_class)'[call'.idx + 1].type = NullType)
                       <=> (call'.typ \notin
                               {"b8", "b16", "b32", "b64", "sb8", "sb16",
                                "sb32", "sb64", "r", "S", "o"})
                 /\ \A i \in 1..Len(Props(compile_class)) :
                        i # call'.idx + 1
                           => Props(compile_class)'[i] = Props(compile_class)[i]
        /\ (/\ call'.op = "compile_class_done"
            /\ compile_class # 0
            /\ \E i \in 1..Len(Props(compile_class)) :
                   Props(compile_class)[i].type = NullType)
              => /\ fatal' # "none"
                 /\ UNCHANGED <<scope_classes, finished, heap>> ]_vars

\* compile_class_done failed on a class whose slot 0 was declared with an
\* unknown type code and whose slot 1 was declared with a known one
C6_Witness ==
    /\ call.op = "compile_class_done"
    /\ fatal = "properties_[idx].type"
    /\ compile_class # 0
    /\ Len(Props(compile_class)) = 2
    /\ Props(compile_class)[1] = [name |-> "p", type |-> NullType]
    /\ Props(compile_class)[2].type.kind = "r"
    /\ \A s \in Scopes, n \in ClassNames : scope_classes[s][n] = 0

----------------------------------------------------------------------------
(* Properties of the typed accessors. *)

AccessorOps == {"set_vec4", "get_vec4", "set_real", "get_real",
                "set_string", "get_string", "set_object", "get_object"}

\* the slot an accessor call c addresses, when its pid is in range
SlotOf(c) == Props(insts[c.obj].cls)[c.pid + 1]

\* the accessors each kind is said to support
Supported(kind, op) ==
    \/ /\ op \in {"set_vec4", "get_vec4"}
       /\ kind \in {"b8", "b16", "b32", "b64", "sb8", "sb16", "sb32", "sb64"}
    \/ op \in {"set_real", "get_real"} /\ kind = "r"
    \/ op \in {"set_string", "get_string"} /\ kind = "S"
    \/ op \in {"set_object", "get_object"} /\ kind = "o"

HasXZ(vec) == \E i \in 1..Len(vec) : vec[i] \in {BIT4_X, BIT4_Z}

\* C7: every typed accessor called with pid >= the number of slots aborts
\* on the index assertion of class_type, before any property object is
\* reached: nothing is returned and no instance changes.
C7_PidOutOfRangeFatal ==
    [][ (/\ call'.op \in AccessorOps
         /\ call'.pid >= Len(Props(insts[call'.obj].cls)))
           => /\ fatal' = "pid < properties_.size()"
              /\ "ret" \notin DOMAIN call'
              /\ insts' = insts ]_vars

\* set_object was called with pid 2 on an instance of a class of two slots
C7_Witness ==
    /\ call.op = "set_object"
    /\ call.pid = 2
    /\ fatal = "pid < properties_.size()"
    /\ Kinds(insts[call.obj].cls) = <<"o", "b8">>

\* C8: an accessor called on a slot whose kind does not support it aborts,
\* returns nothing and leaves every instance as it was; an accessor called
\* on a slot whose kind supports it does not fail for lack of support.
C8_KindMismatchFatal ==
    [][ (/\ call'.op \in AccessorOps
         /\ call'.pid < Len(Props(insts[call'.obj].cls)))
           => IF Supported(SlotOf(call').type.kind, call'.op)
              THEN fatal' # "0"
              ELSE /\ fatal' = "0"
                   /\ "ret" \notin DOMAIN call'
                   /\ insts' = insts ]_vars

\* get_real was called on the slot of a UInt8 class and aborted
C8_Witness ==
    /\ call.op = "get_real"
    /\ call.pid = 0
    /\ fatal = "0"
    /\ Kinds(insts[call.obj].cls) = <<"b8">>

\* C9: set_vec4 on an integer slot with a vector that has an X or Z digit
\* aborts and stores nothing.
C9_UndefinedDigitFatal ==
    [][ (/\ call'.op = "set_vec4"
         /\ call'.pid < Len(Props(insts[call'.obj].cls))
         /\ SlotOf(call').type.kind \in AtomTags
         /\ HasXZ(call'.val))
           => /\ fatal' # "none"
              /\ insts' = insts ]_vars

\* set_vec4 of a 40 digit vector whose only X is digit 35 aborted on a
\* 32 bit slot
C9_Witness ==
    /\ call.op = "set_vec4"
    /\ call.val = Vec40X
    /\ call.pid = 0
    /\ fatal = "flag"
    /\ Kinds(insts[call.obj].cls) = <<"sb32">>

AllConcrete(vec) == \A i \in 1..Len(vec) : vec[i] \in {BIT4_0, BIT4_1}

\* a get_vec4 that directly follows a completed set_vec4 on the same slot
\* of the same instance, the slot being a UInt32 one
GetAfterSetOnUInt32 ==
    /\ call.op = "set_vec4"
    /\ fatal = "none"
    /\ call'.op = "get_vec4"
    /\ fatal' = "none"
    /\ call'.obj = call.obj
    /\ call'.pid = call.pid
    /\ SlotOf(call).type.kind = "b32"

\* C10 as amended: on a UInt32 slot, set_vec4(v) directly followed by
\* get_vec4 returns v, for every v of exactly 32 digits, all 0 or 1.
C10_RoundTrip32 ==
    [][ (GetAfterSetOnUInt32 /\ AllConcrete(call.val) /\ Len(call.val) = 32)
           => call'.ret = call.val ]_vars

\* get_vec4 returned the 32 digit vector Vec32A from a UInt32 slot
C10_Witness ==
    /\ call.op = "get_vec4"
    /\ fatal = "none"
    /\ call.ret = Vec32A
    /\ Kinds(insts[call.obj].cls) = <<"b32">>

\* C10 as stated: on a UInt32 slot, set_vec4(v) directly followed by
\* get_vec4 returns v, for every v whose digits are all 0 or 1.
C10_Original ==
    [][ (GetAfterSetOnUInt32 /\ AllConcrete(call.val))
           => call'.ret = call.val ]_vars

----------------------------------------------------------------------------
(* Properties of instance_new and instance_delete. *)

\* the calls construct (or destruct) on the slots 0 .. n-1, in that order
CallsInOrder(ev, n) == [i \in 1..n |-> [ev |-> ev, idx |-> i - 1]]

\* the offsets of the Text and ObjectHandle slots of class c
ObjectOffsets(c) ==
    {OffsetAt(c, i) : i \in {j \in 1..Len(Props(c)) :
                                 Props(c)[j].type.kind \in {"S", "o"}}}

\* C14: instance_new on a finished class allocates exactly instance_size_
\* bytes, then calls construct once on every slot, in increasing index
\* order, and only then returns the instance; the Text and ObjectHandle
\* slots then hold a constructed object each.
C14_ConstructInOrder ==
    [][ (call'.op = "instance_new" /\ call'.cls \in finished)
           => LET c == call'.cls
                  n == Len(Props(c))
              IN /\ call'.trace =
                       <<[ev |-> "new char[]", size |-> heap[c].instance_size_]>>
                       \o CallsInOrder("construct", n)
                 /\ call'.ret = Len(insts) + 1
                 /\ Len(insts'[call'.ret].buf) = heap[c].instance_size_
                 /\ insts'[call'.ret].objs = ObjectOffsets(c)
                 /\ fatal' = "none" ]_vars

\* an instance of a class of a string and a byte was made: 33 bytes, two
\* calls of construct
C14_Witness ==
    /\ call.op = "instance_new"
    /\ Kinds(call.cls) = <<"S", "b8">>
    /\ Len(call.trace) = 3
    /\ Len(insts[call.ret].buf) = 33

\* C15: instance_delete calls destruct once on every slot, in increasing
\* index order, and frees the buffer after the last of them; every Text and
\* ObjectHandle slot of the instance held a constructed object before, and
\* none of these objects is left afterwards.
C15_DestructInOrder ==
    [][ call'.op = "instance_delete"
           => LET obj == call'.obj
                  c == insts[obj].cls
              IN /\ call'.trace = CallsInOrder("destruct", Len(Props(c)))
                                  \o <<[ev |-> "delete[]"]>>
                 /\ insts[obj].objs = ObjectOffsets(c)
                 /\ insts'[obj].objs = {}
                 /\ ~insts'[obj].live
                 /\ insts'[obj].buf = << >>
                 /\ fatal' = "none" ]_vars

\* an instance of a class of a string and an object handle was deleted
C15_Witness ==
    /\ call.op = "instance_delete"
    /\ Kinds(insts[call.obj].cls) = <<"S", "o">>
    /\ Len(call.trace) = 3
    /\ insts[call.obj].objs = {}

----------------------------------------------------------------------------
(* Properties of the class registry of the scopes. *)

\* C13: a compile_class_done that completes enters the class it finished in
\* the classes of the current scope under the name compile_class_start was
\* given, and leaves every other entry of every scope as it was; a name
\* already present in that scope is no error, its entry is replaced.
C13_RegisterReplaces ==
    [][ /\ (call'.op = "compile_class_start" /\ fatal' = "none")
              => heap'[compile_class'].class_name_ = call'.nam
        /\ \A c \in 1..Len(heap) : heap'[c].class_name_ = heap[c].class_name_
        /\ (/\ call'.op = "compile_class_done"
            /\ current_scope # 0
            /\ compile_class # 0
            /\ all_types_set(heap[compile_class]))
              => /\ fatal' = "none"
                 /\ compile_class \in finished'
                 /\ scope_classes'[current_scope]
                                  [heap[compile_class].class_name_]
                       = compile_class
                 /\ \A s \in Scopes, n \in ClassNames :
                        (s # current_scope
                            \/ n # heap[compile_class].class_name_)
                        => scope_classes'[s][n] = scope_classes[s][n] ]_vars

\* the second class was registered under the name of the first one in the
\* scope where the first one was, and took its entry
C13_Witness ==
    /\ call.op = "compile_class_done"
    /\ fatal = "none"
    /\ finished = {1, 2}
    /\ heap[1].class_name_ = heap[2].class_name_
    /\ scope_classes[current_scope][heap[2].class_name_] = 2
    /\ \A s \in Scopes, n \in ClassNames : scope_classes[s][n] # 1

----------------------------------------------------------------------------
(* Properties of the pointer to the class under construction. *)

ProtocolOps == {"compile_class_start", "compile_class_property",
                "compile_class_done"}

\* C19: compile_class is set exactly from a compile_class_start that
\* completes until the next compile_class_done that completes:
\* compile_class_property and compile_class_done are fatal while it is
\* null and change nothing, a compile_class_start while it is null is
\* accepted and sets it to a new class, a completed compile_class_done
\* nulls it, and nothing else changes it; it is null exactly when every
\* class created so far is finished.
C19_BuildSlot ==
    [][ /\ (/\ call'.op \in {"compile_class_property", "compile_class_done"}
            /\ compile_class = 0)
              => /\ fatal' # "none"
                 /\ UNCHANGED <<heap, compile_class, scope_classes, finished>>
        /\ (call'.op = "compile_class_start" /\ compile_class = 0)
              => /\ fatal' = "none"
                 /\ compile_class' = Len(heap) + 1
                 /\ Len(heap') = Len(heap) + 1
                 /\ compile_class' \notin finished'
        /\ (call'.op = "compile_class_done" /\ fatal' = "none")
              => /\ compile_class # 0
                 /\ compile_class' = 0
        /\ (\/ call'.op \notin {"compile_class_start", "compile_class_done"}
            \/ fatal' # "none")
              => compile_class' = compile_class
        /\ (compile_class' = 0) <=> (Unfinished' = {}) ]_vars

\* two classes were built one after the other, and a further
\* compile_class_done with no class under construction was fatal
C19_Witness ==
    /\ call.op = "compile_class_done"
    /\ fatal = "compile_class"
    /\ finished = {1, 2}
    /\ compile_class = 0
    /\ current_scope # 0

----------------------------------------------------------------------------
(* Properties of the declarations of a build. *)

\* the kind a type code stands for
KindOfCode(typ) ==
    IF typ \in {"b8", "b16", "b32", "b64", "sb8", "sb16", "sb32", "sb64",
                "r", "S", "o"}
    THEN typ ELSE "NULL"

\* the offset of slot i under the largest-first rule, from the kinds alone:
\* the sizes of the slots that are larger, or as large and of lower index
OffsetFromKinds(kinds, i) ==
    LET size(j) == instance_size([kind |-> kinds[j]])
    IN SumSeq([j \in 1..Len(kinds) |->
                  IF \/ size(j) > size(i)
                     \/ (size(j) = size(i) /\ j < i)
                  THEN size(j) ELSE 0])

\* C16: a declaration that completes sets its slot to the name and kind it
\* was given, whatever the slot held and whatever was declared before for
\* other indices, and touches no other slot; compile_class_done then keeps
\* the names and kinds and derives every offset and instance_size_ from the
\* kinds the slots hold at that time.  So the finished class depends only
\* on the last declaration of each index.
C16_LastDeclarationWins ==
    [][ /\ (/\ call'.op = "compile_class_property"
            /\ compile_class # 0
            /\ call'.idx < Len(Props(compile_class)))
              => /\ fatal' = "none"
                 /\ Props(compile_class)'[call'.idx + 1] =
                       [name |-> call'.nam,
                        type |-> [kind |-> KindOfCode(call'.typ),
                                  offset_ |-> Uninit]]
                 /\ \A i \in 1..Len(Props(compile_class)) :
                        i # call'.idx + 1
                           => Props(compile_class)'[i] = Props(compile_class)[i]
                 /\ Len(Props(compile_class)') = Len(Props(compile_class))
                 /\ heap'[compile_class].instance_size_ = 0
        /\ (call'.op = "compile_class_done" /\ fatal' = "none")
              => LET before == heap[compile_class]
                     after == heap'[compile_class]
                     n == Len(before.properties_)
                     kinds == [i \in 1..n |-> before.properties_[i].type.kind]
                 IN /\ Len(after.properties_) = n
                    /\ \A i \in 1..n :
                          /\ after.properties_[i].name =
                                before.properties_[i].name
                          /\ after.properties_[i].type.kind = kinds[i]
                          /\ after.properties_[i].type.offset_ =
                                OffsetFromKinds(kinds, i)
                    /\ after.instance_size_ =
                          SumSeq([i \in 1..n |->
                                     instance_size([kind |-> kinds[i]])]) ]_vars

\* a class was finished whose slot 1 was declared second and whose slot 0
\* was declared third: the first declaration was overwritten, and index 1
\* came before the last declaration of index 0
C16_Witness ==
    /\ call.op = "compile_class_done"
    /\ fatal = "none"
    /\ \E c \in finished :
          /\ [i \in 1..2 |-> Props(c)[i].name] = <<"d3", "d2">>
          /\ Kinds(c) = <<"b8", "S">>
          /\ Offsets(c) = <<32, 0>>
          /\ heap[c].instance_size_ = 33

----------------------------------------------------------------------------
(* Properties of the values the accessors store and return. *)

\* C17: on a Real slot, set_real(x) directly followed by get_real on the
\* same instance and property returns the eight bytes of x.
C17_RealRoundTrip ==
    [][ (/\ call.op = "set_real"
         /\ fatal = "none"
         /\ call'.op = "get_real"
         /\ call'.obj = call.obj
         /\ call'.pid = call.pid)
           => /\ SlotOf(call).type.kind = "r"
              /\ fatal' = "none"
              /\ call'.ret = call.val ]_vars

\* get_real returned 3.14 from a Real slot
C17_Witness ==
    /\ call.op = "get_real"
    /\ fatal = "none"
    /\ call.ret = <<31, 133, 235, 81, 184, 30, 9, 64>>
    /\ Kinds(insts[call.obj].cls) = <<"r">>

\* the number of digits of each integer kind
WidthOf(kind) ==
    CASE kind \in {"b8", "sb8"}   -> 8
      [] kind \in {"b16", "sb16"} -> 16
      [] kind \in {"b32", "sb32"} -> 32
      [] kind \in {"b64", "sb64"} -> 64

\* bit i (from 0) of the integer stored at `offset` of the buffer of obj
StoredBit(obj, offset, i) ==
    (insts[obj].buf[offset + (i \div 8) + 1] \div Pow2(i % 8)) % 2

\* C18: get_vec4 on an integer slot does not fail and returns a vector of
\* 8, 16, 32 or 64 digits according to the kind, every digit 0 or 1,
\* digit i being bit i of the integer the slot holds, whatever vector was
\* passed to set_vec4 before.
C18_GetVec4Width ==
    [][ (/\ call'.op = "get_vec4"
         /\ call'.pid < Len(Props(insts[call'.obj].cls))
         /\ SlotOf(call').type.kind \in
                {"b8", "b16", "b32", "b64", "sb8", "sb16", "sb32", "sb64"})
           => LET type == SlotOf(call').type
              IN /\ fatal' = "none"
                 /\ Len(call'.ret) = WidthOf(type.kind)
                 /\ Len(call'.ret) = 8 * instance_size(type)
                 /\ \A i \in 1..Len(call'.ret) :
                        /\ call'.ret[i] \in {BIT4_0, BIT4_1}
                        /\ call'.ret[i] =
                              StoredBit(call'.obj, type.offset_, i - 1) ]_vars

\* get_vec4 returned 16 digits from an Int16 slot that a set_vec4 of a
\* 40 digit vector had written
C18_Witness ==
    /\ call.op = "get_vec4"
    /\ fatal = "none"
    /\ Kinds(insts[call.obj].cls) = <<"sb16">>
    /\ call.ret = SubSeq(Vec40A, 1, 16)

----------------------------------------------------------------------------
(* Properties of the slots of an instance. *)

SetterOps == {"set_vec4", "set_real", "set_string", "set_object"}

\* what the getter matching the kind of `type` returns from the buffer buf
TypedGet(type, buf) ==
    CASE type.kind \in AtomTags -> atom_get_vec4(type, buf)
      [] type.kind = "r" -> read_bytes(buf, type.offset_, SizeofDouble)
      [] type.kind = "S" ->
             string_value(read_bytes(buf, type.offset_, SizeofString))
      [] type.kind = "o" ->
             object_value(read_bytes(buf, type.offset_, SizeofObject))

\* C20: a setter that completes on property p of an instance changes no
\* byte outside the slot of p: the matching getter of every other property
\* of the instance returns what it returned before, every other instance
\* is as it was, and so is the class.
C20_SetTouchesOneSlot ==
    [][ (call'.op \in SetterOps /\ fatal' = "none")
           => \A obj \in {call'.obj} :
              \A props \in {Props(insts[obj].cls)} :
              \A type \in {props[call'.pid + 1].type} :
              \A before \in {insts[obj].buf}, after \in {insts'[obj].buf} :
                 /\ Len(after) = Len(before)
                 /\ SubSeq(after, 1, type.offset_)
                       = SubSeq(before, 1, type.offset_)
                 /\ SubSeq(after, type.offset_ + instance_size(type) + 1,
                           Len(after))
                       = SubSeq(before, type.offset_ + instance_size(type) + 1,
                                Len(before))
                 /\ \A q \in 1..Len(props) :
                        q # call'.pid + 1
                        => TypedGet(props[q].type, after)
                              = TypedGet(props[q].type, before)
                 /\ \A other \in 1..Len(insts) :
                        other # obj => insts'[other] = insts[other]
                 /\ Len(insts') = Len(insts)
                 /\ heap' = heap ]_vars

\* set_vec4 wrote slot 0 of the first of two instances of a class of an
\* Int16 and a string, while slot 1 of it holds "hello" and the second
\* instance holds "hi"
C20_Witness ==
    /\ call.op = "set_vec4"
    /\ fatal = "none"
    /\ call.obj = 1
    /\ call.pid = 0
    /\ Len(insts) = 2
    /\ Kinds(insts[1].cls) = <<"b16", "S">>
    /\ TypedGet(Props(insts[1].cls)[1].type, insts[1].buf) = Vec16A
    /\ TypedGet(Props(insts[1].cls)[2].type, insts[1].buf)
          = <<104, 101, 108, 108, 111>>
    /\ TypedGet(Props(insts[2].cls)[2].type, insts[2].buf) = <<104, 105>>

\* the string the Text slot pid (from 0) of instance obj holds
TextOf(I, obj, pid) ==
    LET type == Props(I[obj].cls)[pid + 1].type
    IN string_value(read_bytes(I[obj].buf, type.offset_, SizeofString))

\* the Text slots of instance obj
TextPids(obj) ==
    {pid \in 0..(Len(Props(insts[obj].cls)) - 1) :
         Props(insts[obj].cls)[pid + 1].type.kind = "S"}

\* C11: every Text slot of a new instance holds the empty string; a
\* set_string(s) that completes makes its slot hold s; get_string returns
\* the string its slot holds; and no step other than a set_string on that
\* slot of that instance changes the string a Text slot holds.  So
\* get_string returns the empty string until the first set_string on the
\* slot, and afterwards the string of the last set_string on it.
C11_TextSlot ==
    [][ /\ call'.op = "instance_new"
              => \A pid \in 0..(Len(Props(call'.cls)) - 1) :
                     Props(call'.cls)[pid + 1].type.kind = "S"
                     => TextOf(insts', call'.ret, pid) = << >>
        /\ (call'.op = "set_string" /\ fatal' = "none")
              => TextOf(insts', call'.obj, call'.pid) = call'.val
        /\ (call'.op = "get_string" /\ fatal' = "none")
              => call'.ret = TextOf(insts, call'.obj, call'.pid)
        /\ \A obj \in 1..Len(insts) : \A pid \in TextPids(obj) :
              ~(/\ call'.op = "set_string"
                /\ fatal' = "none"
                /\ call'.obj = obj
                /\ call'.pid = pid)
              => TextOf(insts', obj, pid) = TextOf(insts, obj, pid) ]_vars

\* get_string returned "hello" from slot 0 of an instance whose slot 1
\* holds "hi", the other instance still holding two empty strings
C11_Witness ==
    /\ call.op = "get_string"
    /\ fatal = "none"
    /\ call.pid = 0
    /\ call.ret = <<104, 101, 108, 108, 111>>
    /\ Kinds(insts[call.obj].cls) = <<"S", "S">>
    /\ TextOf(insts, call.obj, 1) = <<104, 105>>
    /\ \E other \in 1..Len(insts) :
          /\ other # call.obj
          /\ TextOf(insts, other, 0) = << >>
          /\ TextOf(insts, other, 1) = << >>

----------------------------------------------------------------------------
(* Properties of finished classes. *)

\* C12: no step changes a finished class: making, deleting, reading or
\* writing an instance, and compiling a later class, leave its slot count,
\* names, kinds, offsets and instance_size_ as finish_setup set them, and it
\* stays finished.
C12_FrozenReadOnly ==
    [][ \A c \in finished :
           /\ c \in finished'
           /\ Len(Props(c)') = Len(Props(c))
           /\ \A i \in 1..Len(Props(c)) :
                 /\ Props(c)'[i].name = Props(c)[i].name
                 /\ Props(c)'[i].type.kind = Props(c)[i].type.kind
                 /\ Props(c)'[i].type.offset_ = Props(c)[i].type.offset_
           /\ heap'[c].instance_size_ = heap[c].instance_size_
           /\ heap'[c] = heap[c] ]_vars

\* a second class of another shape was finished after an instance of the
\* first one had been made and written
C12_Witness ==
    /\ call.op = "compile_class_done"
    /\ fatal = "none"
    /\ finished = {1, 2}
    /\ Kinds(1) = <<"S", "b8">>
    /\ Offsets(1) = <<0, 32>>
    /\ Kinds(2) = <<"b8">>
    /\ Len(insts) = 1
    /\ insts[1].cls = 1
    /\ insts[1].live
    /\ TypedGet(Props(1)[1].type, insts[1].buf) = <<104, 105>>
    /\ TypedGet(Props(1)[2].type, insts[1].buf) = Vec8A

----------------------------------------------------------------------------
(* Properties of the alignment of the slots and of the registered classes. *)

IsPowerOfTwo(n) == \E k \in 0..6 : n = Pow2(k)

\* C21: in a finished class whose slot sizes are all powers of two, every
\* slot lies at an offset that is a multiple of its own size, and
\* instance_size_ is still the plain sum of the sizes (no padding).
C21_NaturalAlignment ==
    \A c \in finished :
        LET n == Len(Props(c))
        IN (\A i \in 1..n : IsPowerOfTwo(SizeAt(c, i)))
              => /\ \A i \in 1..n : OffsetAt(c, i) % SizeAt(c, i) = 0
                 /\ heap[c].instance_size_ =
                       SumSeq([i \in 1..n |-> SizeAt(c, i)])

\* a class of an Int16, a string and a byte was finished: the string at 0,
\* the Int16 at 32, the byte at 34, 35 bytes in all
C21_Witness ==
    \E c \in finished :
        /\ Kinds(c) = <<"sb16", "S", "b8">>
        /\ Offsets(c) = <<32, 0, 34>>
        /\ heap[c].instance_size_ = 35
        /\ \A i \in 1..3 : IsPowerOfTwo(SizeAt(c, i))

\* C22: every class entered in the classes of a scope is a finished one:
\* each slot has a kind, each offset is the one the layout gives it,
\* instance_size_ is the sum of the slot sizes; and it is not the class
\* under construction.
C22_RegisteredAreFinished ==
    \A s \in Scopes, nam \in ClassNames :
        LET c == scope_classes[s][nam]
        IN c # 0 =>
              /\ c \in 1..Len(heap)
              /\ c # compile_class
              /\ c \in finished
              /\ heap[c].class_name_ = nam
              /\ \A i \in 1..Len(Props(c)) :
                    /\ Props(c)[i].type.kind \in KnownTags
                    /\ OffsetAt(c, i) # Uninit
                    /\ OffsetAt(c, i) = OffsetFromKinds(Kinds(c), i)
              /\ heap[c].instance_size_ =
                    SumSeq([i \in 1..Len(Props(c)) |-> SizeAt(c, i)])

\* a finished class of two slots is registered while a second class, one
\* of whose slots has no kind, is under construction and registered nowhere
C22_Witness ==
    /\ fatal = "none"
    /\ compile_class = 2
    /\ Kinds(2) = <<"NULL", "S">>
    /\ \E s \in Scopes, nam \in ClassNames : scope_classes[s][nam] = 1
    /\ Kinds(1) = <<"b8", "S">>
    /\ \A s \in Scopes, nam \in ClassNames : scope_classes[s][nam] # 2

----------------------------------------------------------------------------
(* Properties of the slots of a new instance. *)

GetterOps == {"get_vec4", "get_real", "get_string", "get_object"}

\* C24: in the instance instance_new returns, every integer slot reads
\* through get_vec4 as 8 * size digits 0 and every Real slot reads through
\* get_real as 0.0; a getter changes no instance, so this lasts until the
\* first setter; and a get_vec4 or get_real that directly follows
\* instance_new returns these values.
C24_FreshSlotsZero ==
    [][ /\ call'.op = "instance_new"
              => \A props \in {Props(call'.cls)} :
                 \A buf \in {insts'[call'.ret].buf} :
                 \A i \in 1..Len(props) :
                    /\ props[i].type.kind \in
                           {"b8", "b16", "b32", "b64",
                            "sb8", "sb16", "sb32", "sb64"}
                       => TypedGet(props[i].type, buf)
                             = [d \in 1..WidthOf(props[i].type.kind) |-> BIT4_0]
                    /\ props[i].type.kind = "r"
                       => TypedGet(props[i].type, buf)
                             = <<0, 0, 0, 0, 0, 0, 0, 0>>
        /\ call'.op \in GetterOps => insts' = insts
        /\ (call.op = "instance_new" /\ call'.op = "get_vec4"
               /\ call'.obj = call.ret /\ fatal' = "none")
              => call'.ret =
                    [d \in 1..(8 * instance_size(SlotOf(call').type)) |-> BIT4_0]
        /\ (call.op = "instance_new" /\ call'.op = "get_real"
               /\ call'.obj = call.ret /\ fatal' = "none")
              => call'.ret = <<0, 0, 0, 0, 0, 0, 0, 0>> ]_vars

\* instance_new has just returned an instance of a class of one Int64
\* slot, which reads as 64 digits 0
C24_Witness ==
    /\ call.op = "instance_new"
    /\ fatal = "none"
    /\ Kinds(call.cls) = <<"sb64">>
    /\ insts[call.ret].live
    /\ TypedGet(Props(call.cls)[1].type, insts[call.ret].buf)
          = [d \in 1..64 |-> BIT4_0]


\* ---------------------------------------------------------------------
\* tgt-vlog95/misc.c: extracting a 64 bit value from a number expression
\* ---------------------------------------------------------------------

\* widest number expression handed to get_uint64_from_number
MaxWidth == 66

\* number of bits of uint64_t
Uint64Bits == 64

\* the characters ivl_expr_bits() uses for the bits of a number
BitChars == {"0", "1", "x", "z"}

\* uint64_t value = 0, kept as its bits, bit 0 first
uint64_zero == [k \in 1..Uint64Bits |-> 0]

\* An unsigned IVL_EX_NUMBER expression: ivl_expr_width() and
\* ivl_expr_bits(), bits[idx] of the code being bits[idx + 1] here.  The
\* digit at index top is topc, the digits above it are '0', the ones
\* below it are fill, and the digit at index 0 is low when top > 0;
\* top = -1 gives the number whose digits are all '0'.
NumberExpr(w, top, topc, fill, low) ==
    [width |-> w,
     bits  |-> [k \in 1..w |->
                  IF k - 1 > top THEN "0"
                  ELSE IF k - 1 = top THEN topc
                  ELSE IF k = 1 THEN low
                  ELSE fill]]

\* the number expressions the calls are made with; the width is at least
\* 1, as nbits - 1 wraps and bits[] is read out of bounds otherwise
NumberWidths == 1..MaxWidth
NumberTops == -1..(MaxWidth - 1)
NumberTopChars == {"1", "x", "z"}
NumberFills == {"0", "1"}
NumberLows == {"0", "1", "x"}

\* for (; trim_wid > 0; trim_wid -= 1)
\*     if ('0' != bits[trim_wid]) { trim_wid += 1; break; }
RECURSIVE trim_loop(_, _)
trim_loop(bits, trim_wid) ==
    IF ~(trim_wid > 0) THEN trim_wid
    ELSE IF "0" # bits[trim_wid + 1] THEN trim_wid + 1
    ELSE trim_loop(bits, trim_wid - 1)

\* if (trim_wid < nbits) trim_wid += 1;
trim_extend(trim_wid, nbits) ==
    IF trim_wid < nbits THEN trim_wid + 1 ELSE trim_wid

\* the width of the number after "Trim any '0' bits from the MSB"
trimmed_width(expr) ==
    trim_extend(trim_loop(expr.bits, expr.width - 1), expr.width)

\* for (idx = 0; idx < trim_wid; idx += 1): a '1' sets bit idx of value,
\* a digit that is neither '1' nor '0' ends the call with type -1
RECURSIVE build_value(_, _, _, _)
build_value(bits, trim_wid, idx, value) ==
    IF ~(idx < trim_wid) THEN [result_type |-> 0, value |-> value]
    ELSE IF bits[idx + 1] = "1"
         THEN build_value(bits, trim_wid, idx + 1,
                          [value EXCEPT ![idx + 1] = 1])
    ELSE IF bits[idx + 1] # "0"
         THEN [result_type |-> -1, value |-> uint64_zero]
    ELSE build_value(bits, trim_wid, idx + 1, value)

\* get_uint64_from_number: *result_type and the value returned
get_uint64_from_number(expr) ==
    LET trim_wid == trimmed_width(expr)
    IN  IF trim_wid > Uint64Bits
        THEN [result_type |-> trim_wid, value |-> uint64_zero]
        ELSE build_value(expr.bits, trim_wid, 0, uint64_zero)

\* the IVL_EX_NUMBER branch of emit_scaled_delayx: what goes to vlog_out,
\* the message on stderr and the increment of vlog_errors
emit_scaled_delayx(expr) ==
    LET r == get_uint64_from_number(expr)
    IN  IF r.result_type > 0
        THEN [vlog_out |-> "<invalid>", stderr |-> "greater than 64 bits",
              bits |-> r.result_type, vlog_errors |-> 1,
              value |-> r.value]
        ELSE IF r.result_type < 0
        THEN [vlog_out |-> "<invalid>", stderr |-> "undefined bit",
              bits |-> 0, vlog_errors |-> 1, value |-> r.value]
        ELSE [vlog_out |-> "emit_scaled_delay", stderr |-> "",
              bits |-> 0, vlog_errors |-> 0, value |-> r.value]

\* one call of get_uint64_from_number on an unsigned number expression
NumberGet ==
    /\ call.op = "none"
    /\ \E w \in NumberWidths, top \in NumberTops, topc \in NumberTopChars,
          fill \in NumberFills, low \in NumberLows :
           /\ top < w
           /\ \A expr \in {NumberExpr(w, top, topc, fill, low)} :
                  call' = [op |-> "get_uint64_from_number", expr |-> expr,
                           ret |-> get_uint64_from_number(expr)]
    /\ UNCHANGED <<heap, compile_class, vpi_symbols, current_scope,
                   scope_classes, insts, fatal, finished>>

\* one call of emit_scaled_delayx on an unsigned number expression
NumberDelay ==
    /\ call.op = "none"
    /\ \E w \in NumberWidths, top \in NumberTops, topc \in NumberTopChars,
          fill \in NumberFills, low \in NumberLows :
           /\ top < w
           /\ \A expr \in {NumberExpr(w, top, topc, fill, low)} :
                  call' = [op |-> "emit_scaled_delayx", expr |-> expr,
                           ret |-> emit_scaled_delayx(expr)]
    /\ UNCHANGED <<heap, compile_class, vpi_symbols, current_scope,
                   scope_classes, insts, fatal, finished>>

NextNumber == NumberGet \/ NumberDelay

SpecNumber == Init /\ [][NextNumber]_vars

\* every digit of the number is '0' or '1'
AllBinary(expr) == \A k \in 1..expr.width : expr.bits[k] \in {"0", "1"}

\* every digit at an index of 64 or more is '0'
FitsUint64(expr) ==
    \A k \in 1..expr.width : k > Uint64Bits => expr.bits[k] = "0"

\* the value of a binary number that fits, as bits of a uint64_t
ExactValue(expr) ==
    [k \in 1..Uint64Bits |->
        IF k <= expr.width /\ expr.bits[k] = "1" THEN 1 ELSE 0]

\* C23: get_uint64_from_number on an unsigned number returns result type
\* 0 and the exact value whenever every bit is '0' or '1' and the value
\* fits in 64 bits (every bit at index 64 or above is '0'), whatever the
\* declared width; it returns a positive result type only when the value
\* is too large for 64 bits, and a negative one only when the number has
\* an undefined bit.  The code does not do this: see C23_Witness.
C23_Original ==
    call.op = "get_uint64_from_number" =>
        /\ (AllBinary(call.expr) /\ FitsUint64(call.expr)) =>
               /\ call.ret.result_type = 0
               /\ call.ret.value = ExactValue(call.expr)
        /\ call.ret.result_type > 0 => ~FitsUint64(call.expr)
        /\ call.ret.result_type < 0 => ~AllBinary(call.expr)

\* the number of width 65 whose only '1' is at index 63, the value 2^63:
\* the call answers result type 65 and the value 0
C23_Witness ==
    /\ call.op = "get_uint64_from_number"
    /\ call.expr = NumberExpr(65, 63, "1", "0", "0")
    /\ AllBinary(call.expr) /\ FitsUint64(call.expr)
    /\ call.ret.result_type = 65
    /\ call.ret.value = uint64_zero

\* what of C23 the code does keep: a wrong answer is never given as
\* valid.  Result type 0 comes with the exact value of a binary number
\* that fits, a negative type only with an undefined bit, and a positive
\* type only when the digit at index 63 or a digit above it is not '0'.
C23_ValidIsExact ==
    call.op = "get_uint64_from_number" =>
        /\ call.ret.result_type = 0 =>
               /\ AllBinary(call.expr) /\ FitsUint64(call.expr)
               /\ call.ret.value = ExactValue(call.expr)
        /\ call.ret.result_type < 0 => ~AllBinary(call.expr)
        /\ call.ret.result_type > 0 =>
               \E k \in 1..call.expr.width :
                   k >= Uint64Bits /\ call.expr.bits[k] # "0"

====
